---- MODULE Spec2Model ----
(***************************************************************************)
(* superdocker: a Bubble Tea terminal dashboard over the Docker inventory. *)
(* The model follows src/main.go: the model struct, loadData, Update, View *)
(* and the detail renderers.  Go strings that the code slices are modelled *)
(* as sequences of one-character strings; strings the code only copies are *)
(* TLA+ strings.                                                           *)
(***************************************************************************)
EXTENDS Integers, Sequences, FiniteSets, TLC

\* ------------------------------------------------------------------ bounds

\* Largest number of loadData commands in flight at once.
MaxPending == 2
\* Largest number of forward focus-cycle commands counted by SpecCycle.
MaxCycle == 5
\* Largest terminal width handed to computeColumnsWidth by SpecColumns.
MaxWidth == 120
\* Longest string and largest limit handed to trimTo by SpecTrim.
MaxStrLen == 6
MaxLimit == 8

\* ----------------------------------------------------------------- strings

nil == "nil"

Rep(c, n) == [i \in 1..n |-> c]

Ellipsis == <<".", ".", ".">>

Sha256Prefix == <<"s", "h", "a", "2", "5", "6", ":">>

HasPrefix(s, p) == Len(s) >= Len(p) /\ SubSeq(s, 1, Len(p)) = p

TrimPrefix(s, p) == IF HasPrefix(s, p) THEN SubSeq(s, Len(p) + 1, Len(s)) ELSE s

\* short12: the first 12 characters of an id.
short12(id) == IF Len(id) > 12 THEN SubSeq(id, 1, 12) ELSE id

\* stripSha256: the id without a leading "sha256:".
stripSha256(id) ==
    IF HasPrefix(id, Sha256Prefix)
    THEN SubSeq(id, Len(Sha256Prefix) + 1, Len(id))
    ELSE id

\* A variant that keeps n characters before the "...".
trimTo_KeepsN(s, n) ==
    IF n <= 3 \/ Len(s) <= n THEN s ELSE SubSeq(s, 1, n) \o Ellipsis

\* trimTo: s cut to n characters, the last three being "...".
trimTo(s, n) ==
    IF n <= 3 \/ Len(s) <= n THEN s ELSE SubSeq(s, 1, n - 3) \o Ellipsis

\* fmt.Sprintf("%.1fMB", float64(size)/1024.0/1024.0): the divisions by powers
\* of two are exact, and %.1f rounds the exact value to the nearest tenth, ties
\* to even.  The text is <<whole part, ".", tenth digit, "MB">>.
formatSizeMB(size) ==
    LET q == (size * 10) \div 1048576
        r == (size * 10) % 1048576
        tenths == IF 2 * r > 1048576 THEN q + 1
                  ELSE IF 2 * r < 1048576 THEN q
                  ELSE IF q % 2 = 0 THEN q ELSE q + 1
    IN  <<ToString(tenths \div 10), ".", ToString(tenths % 10), "MB">>

\* joinKV over a map given as a sequence of <<key, value>> pairs (maps of the
\* inventory below hold at most one pair, so Go's iteration order is fixed).
joinKV(m) ==
    IF Len(m) = 0 THEN <<"-">> ELSE [i \in 1..Len(m) |-> <<m[i][1], "=", m[i][2]>>]

\* --------------------------------------------------------------- inventory

IdA  == Rep("a", 12) \o <<"1">>
IdA2 == Rep("a", 12) \o <<"2">>
IdB  == <<"b", "7">>

\* container.Summary values the inventory API can return.
cA == [ID |-> IdA, Image |-> Rep("i", 26), Command |-> <<"s", "h">>,
       State |-> "running", Status |-> "Up", Names |-> << <<"/", "w">> >>,
       Ports |-> << [IP |-> "", PublicPort |-> 0, PrivatePort |-> 80, Type |-> "tcp"] >>,
       Mounts |-> <<>>, Networks |-> <<"bridge">>]
cA2 == [ID |-> IdA2, Image |-> <<"n">>, Command |-> Rep("c", 21),
        State |-> "exited", Status |-> "Exited", Names |-> <<>>,
        Ports |-> <<>>,
        Mounts |-> << [Source |-> Rep("m", 31), Destination |-> <<"/", "d">>] >>,
        Networks |-> <<>>]
cB == [ID |-> IdB, Image |-> <<"r">>, Command |-> <<"g", "o">>,
       State |-> "running", Status |-> "Up", Names |-> << <<"d", "b">> >>,
       Ports |-> << [IP |-> "0.0.0.0", PublicPort |-> 8080, PrivatePort |-> 80, Type |-> "tcp"] >>,
       Mounts |-> <<>>, Networks |-> <<>>]

ContainerLists == { <<>>, <<cB, cA>>, <<cA, cA2>> }

\* image.Summary values.
iA == [ID |-> Sha256Prefix \o IdA, RepoTags |-> <<"nginx:latest", "nginx:1">>,
       RepoDigests |-> <<>>, Size |-> 1572864, Containers |-> 1]
iB == [ID |-> Sha256Prefix \o IdB, RepoTags |-> <<>>,
       RepoDigests |-> <<"nginx@sha256:d">>, Size |-> 104857600, Containers |-> 0]

ImageLists == { <<>>, <<iB, iA>> }

\* volume.Volume values.
vA == [Name |-> <<"d", "a", "t", "a">>, Driver |-> "local", Mountpoint |-> Rep("p", 41),
       Labels |-> <<>>, Options |-> <<>>, CreatedAt |-> ""]
vB == [Name |-> <<"l", "o", "g">>, Driver |-> "nfs", Mountpoint |-> <<"/", "v">>,
       Labels |-> << <<"k", "v">> >>, Options |-> <<>>, CreatedAt |-> "2025-01-01"]

\* A *volume.Volume: <<>> is the nil pointer, <<v>> points to v.
nilPtr == <<>>

Ptr(v) == <<v>>

VolumeResponses == { <<>>, <<Ptr(vA), nilPtr, Ptr(vB)>> }

\* network.Summary values; nB2 has nB's name and another id.
nA == [ID |-> IdA, Name |-> "bridge", Driver |-> "bridge", Scope |-> "local",
       Internal |-> FALSE, Attachable |-> FALSE, Ingress |-> FALSE, EnableIPv6 |-> FALSE]
nB == [ID |-> IdB, Name |-> "host", Driver |-> "host", Scope |-> "local",
       Internal |-> TRUE, Attachable |-> FALSE, Ingress |-> FALSE, EnableIPv6 |-> FALSE]
nB2 == [ID |-> IdA2, Name |-> "host", Driver |-> "overlay", Scope |-> "swarm",
        Internal |-> FALSE, Attachable |-> TRUE, Ingress |-> TRUE, EnableIPv6 |-> TRUE]

NetworkLists == { <<>>, <<nA>>, <<nB, nB2>> }

\* Errors a failing call can return.
Errors == {"e1", "e2"}

Ok(v) == [err |-> nil, val |-> v]

Failed(e) == [err |-> e, val |-> <<>>]

Outcomes(vals) == {Ok(v) : v \in vals} \cup {Failed(e) : e \in Errors}

\* What the Docker client answers to one run of loadData: the outcome of
\* creating the client and of each of the four list calls.
ApiResponses ==
    [client : Outcomes({<<>>}), containers : Outcomes(ContainerLists),
     images : Outcomes(ImageLists), volumes : Outcomes(VolumeResponses),
     networks : Outcomes(NetworkLists)]

\* The answers Spec draws from: a call may fail with any error, and when all
\* four calls succeed the collections are one of these two inventories.
Inventories ==
    { [containers |-> <<cB, cA>>, images |-> <<iB, iA>>, volumes |-> <<>>,
       networks |-> <<nA>>],
      [containers |-> <<cA, cA2>>, images |-> <<>>,
       volumes |-> <<Ptr(vA), nilPtr, Ptr(vB)>>, networks |-> <<nB, nB2>>] }

InventoryResponses ==
    {api \in ApiResponses :
        (\A f \in DOMAIN api : api[f].err = nil) =>
            [containers |-> api.containers.val, images |-> api.images.val,
             volumes |-> api.volumes.val, networks |-> api.networks.val]
                \in Inventories}

\* Terminal sizes a tea.WindowSizeMsg carries in Spec.
WindowSizes == {0, 40} \X {0, 24}

\* --------------------------------------------------------------- messages

KeyMsg(k) == [type |-> "key", key |-> k]

WindowSizeMsg(w, h) == [type |-> "resize", Width |-> w, Height |-> h]

\* dataLoadedMsg{containers, images, volumes, networks, err}
dataLoadedMsg(c, i, v, n, e) ==
    [type |-> "dataLoaded", containers |-> c, images |-> i, volumes |-> v,
     networks |-> n, err |-> e]

\* dataLoadedMsg{err: err}: every collection is the zero value.
errMsg(e) == dataLoadedMsg(<<>>, <<>>, <<>>, <<>>, e)

NoMsg == [type |-> "none"]

\* The loop over vresp.Volumes: nil pointers are skipped.
RECURSIVE derefVolumes(_)
derefVolumes(ptrs) ==
    IF ptrs = <<>> THEN <<>>
    ELSE IF Head(ptrs) = nilPtr THEN derefVolumes(Tail(ptrs))
    ELSE <<Head(ptrs)[1]>> \o derefVolumes(Tail(ptrs))

\* loadData as a function of the client's answers.
loadData(api) ==
    IF api.client.err # nil THEN errMsg(api.client.err)
    ELSE IF api.containers.err # nil THEN errMsg(api.containers.err)
    ELSE IF api.images.err # nil THEN errMsg(api.images.err)
    ELSE IF api.volumes.err # nil THEN errMsg(api.volumes.err)
    ELSE IF api.networks.err # nil THEN errMsg(api.networks.err)
    ELSE dataLoadedMsg(api.containers.val, api.images.val,
                       derefVolumes(api.volumes.val), api.networks.val, nil)

\* Every message a run of loadData delivers in Spec.
LoadResults == {loadData(api) : api \in InventoryResponses}

\* ------------------------------------------------------------------- state

VARIABLES
    containersTable, imagesTable, volumesTable, networksTable,  \* model: the four table.Model
    containers, images, volumes, networks,                      \* model: the stored collections
    err, loading, focusIndex, width, height,                    \* model: the other fields
    pending,      \* loadData commands handed to the runtime and not yet delivered
    quit,         \* tea.Quit was returned: the program has ended
    lastMsg,      \* the message the last call of Update handled
    lastOk,       \* the last dataLoadedMsg without error that Update handled
    cycleCount,   \* forward focus-cycle commands handled (counted by SpecCycle)
    ld_pc, ld_api, ld_calls, ld_containers, ld_images, ld_volumes, ld_msg,
                  \* one run of loadData, statement by statement (SpecLoad)
    cw_total, cw_result,   \* one call of computeColumnsWidth (SpecColumns)
    tt_s, tt_n, tt_result  \* one call of trimTo (SpecTrim)

tableVars == <<containersTable, imagesTable, volumesTable, networksTable>>

dataVars == <<containers, images, volumes, networks>>

loaderVars == <<ld_pc, ld_api, ld_calls, ld_containers, ld_images, ld_volumes, ld_msg>>

calcVars == <<cw_total, cw_result, tt_s, tt_n, tt_result>>

vars == <<tableVars, dataVars, err, loading, focusIndex, width, height,
          pending, quit, lastMsg, lastOk, cycleCount, loaderVars, calcVars>>

\* -------------------------------------------------- bubbles table.Model

\* table.New(..., table.WithFocused(f), ...): no rows, cursor 0.
tableNew(f) == [rows |-> <<>>, cursor |-> 0, focus |-> f]

clamp(v, low, high) ==
    LET m == IF v > low THEN v ELSE low IN IF m < high THEN m ELSE high

\* The tables are github.com/charmbracelet/bubbles/table models; what follows
\* is that package's behaviour as main.go relies on it.
\* (*Model).SetRows: the rows are replaced, a cursor past the end is pulled back.
SetRows(t, r) ==
    [t EXCEPT !.rows = r,
              !.cursor = IF t.cursor > Len(r) - 1 THEN Len(r) - 1 ELSE t.cursor]

MoveUp(t, n) == [t EXCEPT !.cursor = clamp(t.cursor - n, 0, Len(t.rows) - 1)]

MoveDown(t, n) == [t EXCEPT !.cursor = clamp(t.cursor + n, 0, Len(t.rows) - 1)]

\* (Model).Update: a blurred table ignores the message.
tableUpdate(t, msg) ==
    IF ~t.focus THEN t
    ELSE IF msg.type = "key" /\ msg.key = "up" THEN MoveUp(t, 1)
    ELSE IF msg.type = "key" /\ msg.key = "down" THEN MoveDown(t, 1)
    ELSE t

\* (Model).SelectedRow: nil (here <<>>) when the cursor is off the rows.
SelectedRow(t) ==
    IF t.cursor < 0 \/ t.cursor >= Len(t.rows) THEN <<>> ELSE t.rows[t.cursor + 1]

\* ------------------------------------------------------------ row building

containerRow(c) ==
    <<short12(c.ID), trimTo(c.Image, 25), trimTo(c.Command, 20), c.Status,
      IF Len(c.Names) > 0 THEN TrimPrefix(c.Names[1], <<"/">>) ELSE <<>> >>

imageRow(img) ==
    <<IF Len(img.RepoTags) > 0 THEN img.RepoTags[1] ELSE "<none>:<none>",
      short12(stripSha256(img.ID)), formatSizeMB(img.Size)>>

volumeRow(v) == <<v.Name, v.Driver, trimTo(v.Mountpoint, 40)>>

networkRow(n) == <<n.Name, short12(stripSha256(n.ID)), n.Driver, n.Scope>>

containerRows(cs) == [i \in 1..Len(cs) |-> containerRow(cs[i])]

imageRows(is) == [i \in 1..Len(is) |-> imageRow(is[i])]

volumeRows(vs) == [i \in 1..Len(vs) |-> volumeRow(vs[i])]

networkRows(ns) == [i \in 1..Len(ns) |-> networkRow(ns[i])]

\* ------------------------------------------------------------------- Init

\* initialModel(), and Init() handing the first loadData to the runtime.
InitModel ==
    /\ containersTable = tableNew(TRUE)
    /\ imagesTable = tableNew(FALSE)
    /\ volumesTable = tableNew(FALSE)
    /\ networksTable = tableNew(FALSE)
    /\ containers = <<>>
    /\ images = <<>>
    /\ volumes = <<>>
    /\ networks = <<>>
    /\ err = nil
    /\ loading = TRUE
    /\ focusIndex = 0
    /\ width = 0
    /\ height = 0
    /\ pending = 1
    /\ quit = FALSE
    /\ lastMsg = NoMsg
    /\ lastOk = errMsg(nil)
    /\ cycleCount = 0

LoaderIdle ==
    /\ ld_pc = "idle"
    /\ ld_api = [client |-> Ok(<<>>), containers |-> Ok(<<>>), images |-> Ok(<<>>),
                 volumes |-> Ok(<<>>), networks |-> Ok(<<>>)]
    /\ ld_calls = <<>>
    /\ ld_containers = <<>>
    /\ ld_images = <<>>
    /\ ld_volumes = <<>>
    /\ ld_msg = NoMsg

\* No call of computeColumnsWidth or trimTo is being followed.
CalcIdle ==
    /\ cw_total = 0
    /\ cw_result = <<>>
    /\ tt_s = <<>>
    /\ tt_n = 0
    /\ tt_result = <<>>

Init == InitModel /\ LoaderIdle /\ CalcIdle

\* ----------------------------------------------------------------- Update

\* A variant that stores the width of the message and not its height.
WindowSize_KeepsHeight ==
    /\ ~quit
    /\ \E size \in WindowSizes :
          /\ width' = size[1]
          /\ height' = height
          /\ lastMsg' = WindowSizeMsg(size[1], size[2])
    /\ UNCHANGED <<tableVars, dataVars, err, loading, focusIndex, pending, quit,
                   lastOk, cycleCount, loaderVars, calcVars>>

\* case tea.WindowSizeMsg
WindowSize ==
    /\ ~quit
    /\ \E size \in WindowSizes :
          /\ width' = size[1]
          /\ height' = size[2]
          /\ lastMsg' = WindowSizeMsg(size[1], size[2])
    /\ UNCHANGED <<tableVars, dataVars, err, loading, focusIndex, pending, quit,
                   lastOk, cycleCount, loaderVars, calcVars>>

\* A variant that takes the quit key only when no fetch is outstanding.
KeyQuit_WaitsForFetch ==
    /\ ~quit
    /\ pending = 0
    /\ \E k \in {"q", "ctrl+c", "esc"} : lastMsg' = KeyMsg(k)
    /\ quit' = TRUE
    /\ UNCHANGED <<tableVars, dataVars, err, loading, focusIndex, width, height,
                   pending, lastOk, cycleCount, loaderVars, calcVars>>

\* case "q", "ctrl+c", "esc": the model is returned unchanged with tea.Quit.
KeyQuit ==
    /\ ~quit
    /\ \E k \in {"q", "ctrl+c", "esc"} : lastMsg' = KeyMsg(k)
    /\ quit' = TRUE
    /\ UNCHANGED <<tableVars, dataVars, err, loading, focusIndex, width, height,
                   pending, lastOk, cycleCount, loaderVars, calcVars>>

\* A variant of the "r" case that also empties the tables.
KeyRefresh_ClearsRows ==
    /\ ~quit
    /\ pending < MaxPending
    /\ loading' = TRUE
    /\ pending' = pending + 1
    /\ lastMsg' = KeyMsg("r")
    /\ containersTable' = SetRows(containersTable, <<>>)
    /\ imagesTable' = SetRows(imagesTable, <<>>)
    /\ volumesTable' = SetRows(volumesTable, <<>>)
    /\ networksTable' = SetRows(networksTable, <<>>)
    /\ UNCHANGED <<dataVars, err, focusIndex, width, height, quit,
                   lastOk, cycleCount, loaderVars, calcVars>>

\* case "r": loading is set and another loadData is handed to the runtime.
KeyRefresh ==
    /\ ~quit
    /\ pending < MaxPending
    /\ loading' = TRUE
    /\ pending' = pending + 1
    /\ lastMsg' = KeyMsg("r")
    /\ UNCHANGED <<tableVars, dataVars, err, focusIndex, width, height, quit,
                   lastOk, cycleCount, loaderVars, calcVars>>

\* A variant that cycles backward.
advanceFocus_Backward(i) == (i + 3) % 4

\* m.focusIndex = (m.focusIndex + 1) % 4
advanceFocus(i) == (i + 1) % 4

\* The Focus() and Blur() calls of the "tab" and "right" cases: the table that
\* gets Focus() for the new focusIndex, and the tables that get Blur().
tabFocused(i) == i

tabBlurred(i) == (0..3) \ {i}

\* The Focus() and Blur() calls of the "left" case.
leftFocused(i) ==
    CASE i = 0 -> 0
      [] i = 1 -> 0
      [] i = 2 -> 1
      [] i = 3 -> 2

\* A variant whose case 2 does not blur the containers table.
leftBlurred_KeepsContainers(i) == IF i = 2 THEN {2, 3} ELSE (0..3) \ {leftFocused(i)}

leftBlurred(i) == (0..3) \ {leftFocused(i)}

\* A table after the Focus()/Blur() calls of one case: k is the table's index.
applyFocus(t, k, focused, blurred) ==
    [t EXCEPT !.focus = IF k = focused THEN TRUE
                        ELSE IF k \in blurred THEN FALSE ELSE @]

FocusCycle(key, focused, blurred) ==
    /\ ~quit
    /\ focusIndex' = advanceFocus(focusIndex)
    /\ containersTable' = applyFocus(containersTable, 0, focused, blurred)
    /\ imagesTable' = applyFocus(imagesTable, 1, focused, blurred)
    /\ volumesTable' = applyFocus(volumesTable, 2, focused, blurred)
    /\ networksTable' = applyFocus(networksTable, 3, focused, blurred)
    /\ lastMsg' = KeyMsg(key)
    /\ UNCHANGED <<dataVars, err, loading, width, height, pending, quit, lastOk,
                   loaderVars, calcVars>>

\* case "tab"
TabStep ==
    FocusCycle("tab", tabFocused(advanceFocus(focusIndex)),
               tabBlurred(advanceFocus(focusIndex)))

\* case "right"
RightStep ==
    FocusCycle("right", tabFocused(advanceFocus(focusIndex)),
               tabBlurred(advanceFocus(focusIndex)))

\* case "left"
LeftStep ==
    FocusCycle("left", leftFocused(advanceFocus(focusIndex)),
               leftBlurred(advanceFocus(focusIndex)))

KeyTab == TabStep /\ UNCHANGED cycleCount

KeyRight == RightStep /\ UNCHANGED cycleCount

KeyLeft == LeftStep /\ UNCHANGED cycleCount

\* Any other key falls out of the switch and is routed to the table at
\* focusIndex ("up" and "down" are the keys of the table's key map modelled).
KeyOther ==
    /\ ~quit
    /\ \E k \in {"up", "down"} :
          /\ lastMsg' = KeyMsg(k)
          /\ containersTable' = IF focusIndex = 0
                                THEN tableUpdate(containersTable, KeyMsg(k))
                                ELSE containersTable
          /\ imagesTable' = IF focusIndex = 1
                            THEN tableUpdate(imagesTable, KeyMsg(k))
                            ELSE imagesTable
          /\ volumesTable' = IF focusIndex = 2
                             THEN tableUpdate(volumesTable, KeyMsg(k))
                             ELSE volumesTable
          /\ networksTable' = IF focusIndex = 3
                              THEN tableUpdate(networksTable, KeyMsg(k))
                              ELSE networksTable
    /\ UNCHANGED <<dataVars, err, loading, focusIndex, width, height, pending, quit,
                   lastOk, cycleCount, loaderVars, calcVars>>

\* A variant of the error branch that also empties the collections and rows.
onLoadFailed_Discards(msg) ==
    /\ err' = msg.err
    /\ containers' = <<>>
    /\ images' = <<>>
    /\ volumes' = <<>>
    /\ networks' = <<>>
    /\ containersTable' = SetRows(containersTable, <<>>)
    /\ imagesTable' = SetRows(imagesTable, <<>>)
    /\ volumesTable' = SetRows(volumesTable, <<>>)
    /\ networksTable' = SetRows(networksTable, <<>>)

\* case dataLoadedMsg with msg.err != nil: the error is stored and Update returns.
onLoadFailed(msg) ==
    /\ err' = msg.err
    /\ UNCHANGED <<tableVars, dataVars>>

\* A variant of the success branch that installs three of the four categories.
onLoadSucceeded_SkipsImages(msg) ==
    /\ containers' = msg.containers
    /\ images' = images
    /\ volumes' = msg.volumes
    /\ networks' = msg.networks
    /\ containersTable' = SetRows(containersTable, containerRows(msg.containers))
    /\ imagesTable' = imagesTable
    /\ volumesTable' = SetRows(volumesTable, volumeRows(msg.volumes))
    /\ networksTable' = SetRows(networksTable, networkRows(msg.networks))
    /\ UNCHANGED err

\* case dataLoadedMsg without error: the collections are stored and every
\* table's rows are rebuilt from the message.
onLoadSucceeded(msg) ==
    /\ containers' = msg.containers
    /\ images' = msg.images
    /\ volumes' = msg.volumes
    /\ networks' = msg.networks
    /\ containersTable' = SetRows(containersTable, containerRows(msg.containers))
    /\ imagesTable' = SetRows(imagesTable, imageRows(msg.images))
    /\ volumesTable' = SetRows(volumesTable, volumeRows(msg.volumes))
    /\ networksTable' = SetRows(networksTable, networkRows(msg.networks))
    /\ UNCHANGED err

\* A variant that leaves the loading flag as it was.
DataLoaded_KeepsLoading ==
    /\ ~quit
    /\ pending > 0
    /\ \E msg \in LoadResults :
          /\ lastMsg' = msg
          /\ lastOk' = IF msg.err # nil THEN lastOk ELSE msg
          /\ IF msg.err # nil THEN onLoadFailed(msg) ELSE onLoadSucceeded(msg)
    /\ loading' = loading
    /\ pending' = pending - 1
    /\ UNCHANGED <<focusIndex, width, height, quit, cycleCount, loaderVars, calcVars>>

\* case dataLoadedMsg: the runtime delivers the result of one loadData.
DataLoaded ==
    /\ ~quit
    /\ pending > 0
    /\ \E msg \in LoadResults :
          /\ lastMsg' = msg
          /\ lastOk' = IF msg.err # nil THEN lastOk ELSE msg
          /\ IF msg.err # nil THEN onLoadFailed(msg) ELSE onLoadSucceeded(msg)
    /\ loading' = FALSE
    /\ pending' = pending - 1
    /\ UNCHANGED <<focusIndex, width, height, quit, cycleCount, loaderVars, calcVars>>

\* -------------------------------------------------------------------- View

\* A variant that rounds halves down.
computeColumnsWidth_HalvesDown(total) ==
    LET lw0 == (3 * total + 4) \div 10
        lw == IF lw0 < 10 THEN 10 ELSE lw0
        rw0 == total - lw
        rw == IF rw0 < 10 THEN 10 ELSE rw0
    IN  <<lw, rw>>

\* computeColumnsWidth: math.Round(float64(total) * 0.3) rounds halves away from
\* zero; for total >= 0 that is (3 * total + 5) \div 10.  The double nearest 0.3
\* is off by a relative 3.7e-17, less than half an ulp, so the product of a
\* total ending in 5 is the double x.5 exactly and a half stays a half.
computeColumnsWidth(total) ==
    LET lw0 == IF total >= 0 THEN (3 * total + 5) \div 10
               ELSE 0 - ((3 * (0 - total) + 5) \div 10)
        lw == IF lw0 < 10 THEN 10 ELSE lw0
        rw0 == total - lw
        rw == IF rw0 < 10 THEN 10 ELSE rw0
    IN  <<lw, rw>>

Placeholder(text) == [kind |-> "placeholder", text |-> text]

\* The renderers' for loops break at the first match: the least of the matching
\* indices, 0 when there is none.
firstMatch(hits) ==
    IF hits = {} THEN 0 ELSE CHOOSE i \in hits : \A j \in hits : i <= j

portEntry(p) ==
    LET entry == IF p.PublicPort # 0
                 THEN <<ToString(p.PublicPort), "->", ToString(p.PrivatePort), "/", p.Type>>
                 ELSE <<ToString(p.PrivatePort), "/", p.Type>>
    IN  IF p.IP # "" THEN <<p.IP, ":">> \o entry ELSE entry

mountEntry(mnt) == <<trimTo(mnt.Source, 30), ":", mnt.Destination>>

\* A variant that compares the whole id with the row's short id.
containerIndex_FullId ==
    LET selected == SelectedRow(containersTable)
    IN  IF Len(containers) = 0 \/ Len(containersTable.rows) = 0 THEN 0
        ELSE IF Len(selected) = 0 THEN 0
        ELSE firstMatch({i \in 1..Len(containers) : containers[i].ID = selected[1]})

\* The container the selected row's short id finds, 0 when none.
containerIndex ==
    LET selected == SelectedRow(containersTable)
    IN  IF Len(containers) = 0 \/ Len(containersTable.rows) = 0 THEN 0
        ELSE IF Len(selected) = 0 THEN 0
        ELSE firstMatch({i \in 1..Len(containers) :
                            short12(containers[i].ID) = selected[1]})

renderSelectedContainerInfo ==
    IF containerIndex = 0 THEN Placeholder("No container selected.")
    ELSE LET c == containers[containerIndex]
         IN  [kind |-> "info",
              Name |-> IF Len(c.Names) > 0 THEN TrimPrefix(c.Names[1], <<"/">>) ELSE <<>>,
              ID |-> short12(c.ID),
              Image |-> c.Image,
              Command |-> c.Command,
              State |-> c.State,
              Status |-> c.Status,
              Ports |-> IF Len(c.Ports) > 0
                        THEN [i \in 1..Len(c.Ports) |-> portEntry(c.Ports[i])]
                        ELSE << <<"-">> >>,
              Mounts |-> IF Len(c.Mounts) > 0
                         THEN [i \in 1..Len(c.Mounts) |-> mountEntry(c.Mounts[i])]
                         ELSE << <<"-">> >>,
              Networks |-> IF Len(c.Networks) > 0 THEN c.Networks ELSE <<"-">>]

\* The image the selected row's short id (second column) finds, 0 when none.
imageIndex ==
    LET selected == SelectedRow(imagesTable)
    IN  IF Len(images) = 0 \/ Len(imagesTable.rows) = 0 THEN 0
        ELSE IF Len(selected) < 2 THEN 0
        ELSE firstMatch({i \in 1..Len(images) :
                            short12(stripSha256(images[i].ID)) = selected[2]})

renderSelectedImageInfo ==
    IF imageIndex = 0 THEN Placeholder("No image selected.")
    ELSE LET img == images[imageIndex]
         IN  [kind |-> "info",
              RepoTags |-> IF Len(img.RepoTags) > 0 THEN img.RepoTags
                           ELSE <<"<none>:<none>">>,
              ID |-> short12(stripSha256(img.ID)),
              Size |-> formatSizeMB(img.Size),
              RepoDigests |-> IF Len(img.RepoDigests) > 0 THEN img.RepoDigests
                              ELSE <<"-">>,
              Containers |-> ToString(img.Containers)]

\* The volume the selected row's name finds, 0 when none.
volumeIndex ==
    LET selected == SelectedRow(volumesTable)
    IN  IF Len(volumes) = 0 \/ Len(volumesTable.rows) = 0 THEN 0
        ELSE IF Len(selected) < 1 THEN 0
        ELSE firstMatch({i \in 1..Len(volumes) : volumes[i].Name = selected[1]})

renderSelectedVolumeInfo ==
    IF volumeIndex = 0 THEN Placeholder("No volume selected.")
    ELSE LET vol == volumes[volumeIndex]
         IN  [kind |-> "info",
              Name |-> SelectedRow(volumesTable)[1],
              Driver |-> vol.Driver,
              Mountpoint |-> trimTo(vol.Mountpoint, 60),
              Labels |-> joinKV(vol.Labels),
              Options |-> joinKV(vol.Options),
              Created |-> IF vol.CreatedAt = "" THEN "-" ELSE vol.CreatedAt]

\* The network the selected row's short id (second column) or name (first
\* column) finds, 0 when none.
networkIndex ==
    LET selected == SelectedRow(networksTable)
    IN  IF Len(networks) = 0 \/ Len(networksTable.rows) = 0 THEN 0
        ELSE IF Len(selected) < 2 THEN 0
        ELSE firstMatch({i \in 1..Len(networks) :
                            \/ short12(stripSha256(networks[i].ID)) = selected[2]
                            \/ networks[i].Name = selected[1]})

renderSelectedNetworkInfo ==
    IF networkIndex = 0 THEN Placeholder("No network selected.")
    ELSE LET nw == networks[networkIndex]
         IN  [kind |-> "info",
              Name |-> nw.Name,
              ID |-> short12(stripSha256(nw.ID)),
              Driver |-> nw.Driver,
              Scope |-> nw.Scope,
              Internal |-> nw.Internal,
              Attachable |-> nw.Attachable,
              Ingress |-> nw.Ingress,
              EnableIPv6 |-> nw.EnableIPv6]

\* A variant with the titles of cases 1 to 3 rotated.
infoTitle_Shifted(i) ==
    CASE i = 1 -> "Volume Info"
      [] i = 2 -> "Network Info"
      [] i = 3 -> "Image Info"
      [] OTHER -> "Container Info"

\* The title infoTitleAndBody returns for focusIndex i.
infoTitle(i) ==
    CASE i = 1 -> "Image Info"
      [] i = 2 -> "Volume Info"
      [] i = 3 -> "Network Info"
      [] OTHER -> "Container Info"

\* infoTitleAndBody: <<title, body>> for the category focusIndex names.
infoTitleAndBody ==
    CASE focusIndex = 1 -> <<infoTitle(1), renderSelectedImageInfo>>
      [] focusIndex = 2 -> <<infoTitle(2), renderSelectedVolumeInfo>>
      [] focusIndex = 3 -> <<infoTitle(3), renderSelectedNetworkInfo>>
      [] OTHER -> <<infoTitle(focusIndex), renderSelectedContainerInfo>>

\* What table.View() shows of a table; w is <<>> when View left the width alone
\* and <<n>> after SetWidth(n).
tableView(t, w) == [rows |-> t.rows, cursor |-> t.cursor, focus |-> t.focus, width |-> w]

ErrorFrame(e) == [kind |-> "error", error |-> e, hint |-> "Press q to quit."]

LoadingFrame == [kind |-> "loading", text |-> "Loading data..."]

HelpLine == "up/down: navigate, Tab: switch list, r: refresh, q: quit"

DashboardFrame ==
    IF width > 0 /\ height > 0
    THEN LET lw == computeColumnsWidth(width)[1]
             rw == computeColumnsWidth(width)[2]
         IN  [kind |-> "dashboard", layout |-> "columns",
              tables |-> <<tableView(containersTable, <<lw - 2>>),
                           tableView(imagesTable, <<lw - 2>>),
                           tableView(volumesTable, <<lw - 2>>),
                           tableView(networksTable, <<lw - 2>>)>>,
              titles |-> <<>>,
              infoTitle |-> <<>>,
              infoBody |-> infoTitleAndBody[2],
              infoSize |-> <<rw - 2, height - 6>>,
              columns |-> <<lw, rw>>,
              help |-> HelpLine]
    ELSE [kind |-> "dashboard", layout |-> "stacked",
          tables |-> <<tableView(containersTable, <<>>),
                       tableView(imagesTable, <<>>),
                       tableView(volumesTable, <<>>),
                       tableView(networksTable, <<>>)>>,
          titles |-> <<"Docker Containers", "Docker Images", "Docker Volumes",
                       "Docker Networks">>,
          infoTitle |-> <<infoTitleAndBody[1]>>,
          infoBody |-> infoTitleAndBody[2],
          infoSize |-> <<>>,
          columns |-> <<>>,
          help |-> HelpLine]

\* A variant of View that tests the loading flag before the error.
View_LoadingFirst ==
    IF loading THEN LoadingFrame
    ELSE IF err # nil THEN ErrorFrame(err)
    ELSE DashboardFrame

\* View: the error, else the loading notice, else the dashboard.
View ==
    IF err # nil THEN ErrorFrame(err)
    ELSE IF loading THEN LoadingFrame
    ELSE DashboardFrame

\* The dashboard's state as the frame shows it.
State ==
    CASE View.kind = "error" -> "Error"
      [] View.kind = "loading" -> "Loading"
      [] OTHER -> "Ready"

Next ==
    \/ WindowSize
    \/ KeyQuit
    \/ KeyRefresh
    \/ KeyTab
    \/ KeyRight
    \/ KeyLeft
    \/ KeyOther
    \/ DataLoaded

Spec == Init /\ [][Next]_vars

\* Update under resize, quit, refresh and tab keys and fetch results.
NextFair ==
    \/ WindowSize
    \/ KeyQuit
    \/ KeyRefresh
    \/ KeyTab
    \/ DataLoaded

\* The dashboard when the runtime delivers the result of every loadData it was
\* handed: a command runs in its own goroutine and its message is sent to the
\* Update loop when the call returns.
SpecFair == Init /\ [][NextFair]_vars /\ WF_vars(DataLoaded)

\* ------------------------------------------------ loadData, step by step

\* A variant that returns the results gathered so far with the error.
loadFailed_KeepsPartial(e, c, i, v) == dataLoadedMsg(c, i, v, <<>>, e)

\* return dataLoadedMsg{err: err}; c, i and v are the results loadData holds
\* when the call fails.
loadFailed(e, c, i, v) == errMsg(e)

ApiCalls == <<"ContainerList", "ImageList", "VolumeList", "NetworkList">>

InitLoad ==
    /\ InitModel
    /\ ld_pc = "client"
    /\ ld_api \in ApiResponses
    /\ ld_calls = <<>>
    /\ ld_containers = <<>>
    /\ ld_images = <<>>
    /\ ld_volumes = <<>>
    /\ ld_msg = NoMsg
    /\ CalcIdle

modelVars == <<tableVars, dataVars, err, loading, focusIndex, width, height,
               pending, quit, lastMsg, lastOk, cycleCount>>

\* client.NewClientWithOpts
LdNewClient ==
    /\ ld_pc = "client"
    /\ IF ld_api.client.err # nil
       THEN /\ ld_msg' = loadFailed(ld_api.client.err, ld_containers, ld_images, ld_volumes)
            /\ ld_pc' = "done"
       ELSE /\ ld_pc' = "containers"
            /\ UNCHANGED ld_msg
    /\ UNCHANGED <<ld_api, ld_calls, ld_containers, ld_images, ld_volumes, modelVars, calcVars>>

\* cli.ContainerList
LdContainerList ==
    /\ ld_pc = "containers"
    /\ ld_calls' = Append(ld_calls, "ContainerList")
    /\ IF ld_api.containers.err # nil
       THEN /\ ld_msg' = loadFailed(ld_api.containers.err, ld_containers, ld_images, ld_volumes)
            /\ ld_pc' = "done"
            /\ UNCHANGED ld_containers
       ELSE /\ ld_containers' = ld_api.containers.val
            /\ ld_pc' = "images"
            /\ UNCHANGED ld_msg
    /\ UNCHANGED <<ld_api, ld_images, ld_volumes, modelVars, calcVars>>

\* cli.ImageList
LdImageList ==
    /\ ld_pc = "images"
    /\ ld_calls' = Append(ld_calls, "ImageList")
    /\ IF ld_api.images.err # nil
       THEN /\ ld_msg' = loadFailed(ld_api.images.err, ld_containers, ld_images, ld_volumes)
            /\ ld_pc' = "done"
            /\ UNCHANGED ld_images
       ELSE /\ ld_images' = ld_api.images.val
            /\ ld_pc' = "volumes"
            /\ UNCHANGED ld_msg
    /\ UNCHANGED <<ld_api, ld_containers, ld_volumes, modelVars, calcVars>>

\* cli.VolumeList and the loop that copies the volumes out of the response
LdVolumeList ==
    /\ ld_pc = "volumes"
    /\ ld_calls' = Append(ld_calls, "VolumeList")
    /\ IF ld_api.volumes.err # nil
       THEN /\ ld_msg' = loadFailed(ld_api.volumes.err, ld_containers, ld_images, ld_volumes)
            /\ ld_pc' = "done"
            /\ UNCHANGED ld_volumes
       ELSE /\ ld_volumes' = derefVolumes(ld_api.volumes.val)
            /\ ld_pc' = "networks"
            /\ UNCHANGED ld_msg
    /\ UNCHANGED <<ld_api, ld_containers, ld_images, modelVars, calcVars>>

\* cli.NetworkList and the final return
LdNetworkList ==
    /\ ld_pc = "networks"
    /\ ld_calls' = Append(ld_calls, "NetworkList")
    /\ ld_msg' = IF ld_api.networks.err # nil
                 THEN loadFailed(ld_api.networks.err, ld_containers, ld_images, ld_volumes)
                 ELSE dataLoadedMsg(ld_containers, ld_images, ld_volumes,
                                    ld_api.networks.val, nil)
    /\ ld_pc' = "done"
    /\ UNCHANGED <<ld_api, ld_containers, ld_images, ld_volumes, modelVars, calcVars>>

NextLoad ==
    \/ LdNewClient
    \/ LdContainerList
    \/ LdImageList
    \/ LdVolumeList
    \/ LdNetworkList

\* One run of loadData against every answer the client can give.
SpecLoad == InitLoad /\ [][NextLoad]_vars

\* The step-by-step run returns what loadData, taken as a function, returns.
LoaderAgrees == ld_pc = "done" => ld_msg = loadData(ld_api)

\* ------------------------------------------- counted forward focus cycling

CycleTab ==
    /\ cycleCount < MaxCycle
    /\ TabStep
    /\ cycleCount' = cycleCount + 1

CycleRight ==
    /\ cycleCount < MaxCycle
    /\ RightStep
    /\ cycleCount' = cycleCount + 1

NextCycle ==
    \/ CycleTab
    \/ CycleRight
    \/ KeyOther
    \/ DataLoaded

\* The dashboard from its start under forward focus-cycle commands (tab, right),
\* each counted, with the first load and up/down in between.
SpecCycle == Init /\ [][NextCycle]_vars

\* ----------------------------------------- computeColumnsWidth on its own

InitColumns ==
    /\ InitModel
    /\ LoaderIdle
    /\ cw_total \in 0..MaxWidth
    /\ cw_result = <<>>
    /\ tt_s = <<>>
    /\ tt_n = 0
    /\ tt_result = <<>>

\* lw, rw := computeColumnsWidth(total)
CallColumns ==
    /\ cw_result = <<>>
    /\ cw_result' = computeColumnsWidth(cw_total)
    /\ UNCHANGED <<cw_total, tt_s, tt_n, tt_result, modelVars, loaderVars>>

NextColumns == CallColumns

\* One call of computeColumnsWidth for every total width up to MaxWidth.
SpecColumns == InitColumns /\ [][NextColumns]_vars

\* ------------------------------------------------------- trimTo on its own

Alphabet == {"a", "b"}

Strings == UNION {[1..k -> Alphabet] : k \in 0..MaxStrLen}

Limits == (0 - 1)..MaxLimit

InitTrim ==
    /\ InitModel
    /\ LoaderIdle
    /\ cw_total = 0
    /\ cw_result = <<>>
    /\ tt_s \in Strings
    /\ tt_n \in Limits
    /\ tt_result = <<>>

\* trimTo(s, n); the result r is held as <<r>>.
CallTrim ==
    /\ tt_result = <<>>
    /\ tt_result' = <<trimTo(tt_s, tt_n)>>
    /\ UNCHANGED <<tt_s, tt_n, cw_total, cw_result, modelVars, loaderVars>>

NextTrim == CallTrim

\* One call of trimTo for every string up to MaxStrLen characters and every
\* limit from -1 to MaxLimit.
SpecTrim == InitTrim /\ [][NextTrim]_vars

\* ------------------------------------------------------------------ claims

tableAt(k) ==
    CASE k = 0 -> containersTable
      [] k = 1 -> imagesTable
      [] k = 2 -> volumesTable
      [] k = 3 -> networksTable

focusedTables == {k \in 0..3 : tableAt(k).focus}

IsKey(msg, keys) == msg.type = "key" /\ msg.key \in keys

FocusKeys == {"tab", "right", "left"}

IsLoadFailure(msg) == msg.type = "dataLoaded" /\ msg.err # nil

IsLoadSuccess(msg) == msg.type = "dataLoaded" /\ msg.err = nil

\* C1: in every Ready state (no error recorded, loading flag false) exactly one
\* of the four tables is focused.
C1_SingleFocus == State = "Ready" => Cardinality(focusedTables) = 1

\* C1's case: Ready, reached by a "left" key that took focusIndex to 2.
C1_Witness == State = "Ready" /\ IsKey(lastMsg, {"left"}) /\ focusIndex = 2

\* C2: the focused table is always the one focusIndex designates, the other
\* three being blurred.
C2_FocusFollowsIndex == \A k \in 0..3 : tableAt(k).focus <=> k = focusIndex

\* C3: focusIndex starts and stays in 0..3; a tab, right or left key sets it to
\* (old + 1) mod 4 and no other message changes it.
C3_FocusAdvance ==
    /\ focusIndex \in 0..3
    /\ [][/\ focusIndex' \in 0..3
          /\ IsKey(lastMsg', FocusKeys) => focusIndex' = (focusIndex + 1) % 4
          /\ ~IsKey(lastMsg', FocusKeys) => focusIndex' = focusIndex]_vars

\* C3's case: a "left" key wrapped focusIndex from 3 to 0.
C3_Witness == IsKey(lastMsg, {"left"}) /\ focusIndex = 0

TitleCycle ==
    <<"Container Info", "Image Info", "Volume Info", "Network Info", "Container Info">>

\* C4 as stated: three forward focus-cycle commands from focusIndex 0 bring
\* focusIndex back to 0.
C4_ThreeReturnToZero == cycleCount = 3 => focusIndex = 0

\* C4 amended: four forward focus-cycle commands from focusIndex 0 bring it back
\* to 0 (three leave it at 3), and after k of them, k = 0..4, the title
\* infoTitleAndBody returns is the k-th of Container, Image, Volume, Network,
\* Container Info.
C4_FourReturnToZero ==
    /\ cycleCount = 3 => focusIndex = 3
    /\ cycleCount = 4 => focusIndex = 0
    /\ cycleCount <= 4 => infoTitleAndBody[1] = TitleCycle[cycleCount + 1]

\* C4's case: the fourth forward command has been handled.
C4_Witness == cycleCount = 4 /\ IsKey(lastMsg, {"tab", "right"})

\* C5: an "r" key handled in Ready or Error leaves the dashboard in Loading, and
\* it stays in Loading until a dataLoadedMsg is handled.
C5_RefreshEntersLoading ==
    [][/\ (IsKey(lastMsg', {"r"}) /\ State \in {"Ready", "Error"}) => State' = "Loading"
       /\ (State = "Loading" /\ lastMsg'.type # "dataLoaded") => State' = "Loading"]_vars

\* C6: from Error with a refresh outstanding (error recorded, loading set by
\* "r"), a dataLoadedMsg without error leaves the dashboard Ready: the snapshot
\* is installed and View renders the dashboard.
C6_RecoveryByRefresh ==
    [][(State = "Error" /\ loading /\ IsLoadSuccess(lastMsg') /\ pending' = pending - 1)
         => /\ State' = "Ready"
            /\ View'.kind = "dashboard"
            /\ containers' = lastMsg'.containers]_vars

\* C7: a dataLoadedMsg with an error leaves the dashboard in Error whatever was
\* loaded before, and whenever an error is recorded the frame holds the error
\* text and the quit hint and nothing else.
C7_FailureShowsErrorOnly ==
    /\ IsLoadFailure(lastMsg) => (State = "Error" /\ err = lastMsg.err)
    /\ err # nil => /\ View.kind = "error"
                    /\ View.error = err
                    /\ DOMAIN View = {"kind", "error", "hint"}

\* C7's case: a failure delivered after a successful load.
C7_Witness == IsLoadFailure(lastMsg) /\ Len(containers) > 0 /\ ~loading

\* C8: the four stored collections are those of the last dataLoadedMsg handled
\* without error (all empty before the first), and each table's rows are that
\* message's collection row by row, in order.
C8_SnapshotAtomic ==
    /\ containers = lastOk.containers
    /\ images = lastOk.images
    /\ volumes = lastOk.volumes
    /\ networks = lastOk.networks
    /\ Len(containersTable.rows) = Len(lastOk.containers)
    /\ Len(imagesTable.rows) = Len(lastOk.images)
    /\ Len(volumesTable.rows) = Len(lastOk.volumes)
    /\ Len(networksTable.rows) = Len(lastOk.networks)
    /\ \A i \in 1..Len(lastOk.containers) :
          containersTable.rows[i] = containerRow(lastOk.containers[i])
    /\ \A i \in 1..Len(lastOk.images) :
          imagesTable.rows[i] = imageRow(lastOk.images[i])
    /\ \A i \in 1..Len(lastOk.volumes) :
          volumesTable.rows[i] = volumeRow(lastOk.volumes[i])
    /\ \A i \in 1..Len(lastOk.networks) :
          networksTable.rows[i] = networkRow(lastOk.networks[i])

\* C8's case: a second inventory has replaced a first one, a later fetch still
\* outstanding.
C8_Witness ==
    /\ IsLoadSuccess(lastMsg)
    /\ Len(volumes) = 2
    /\ Len(images) = 0
    /\ pending > 0
    /\ ~loading

\* C9 as stated: after a dataLoadedMsg with an error the stored collections and
\* the tables' rows are empty.
C9_FailureDiscardsSnapshot ==
    IsLoadFailure(lastMsg) =>
        /\ containers = <<>> /\ images = <<>> /\ volumes = <<>> /\ networks = <<>>
        /\ \A k \in 0..3 : tableAt(k).rows = <<>>

\* C9 amended: a dataLoadedMsg with an error records the error and clears the
\* loading flag; the stored collections and the four tables stay as they were,
\* and only the frame drops them.
C9_FailureKeepsSnapshot ==
    [][(IsLoadFailure(lastMsg') /\ pending' = pending - 1)
         => /\ err' = lastMsg'.err
            /\ ~loading'
            /\ UNCHANGED <<dataVars, tableVars>>
            /\ View'.kind = "error"]_vars

\* C9's case: an error recorded while the collections of an earlier load are
\* still stored.
C9_Witness == IsLoadFailure(lastMsg) /\ Len(networks) = 2 /\ err = "e2"

FirstFailing(api) ==
    LET failing == {k \in 1..4 :
                      \/ (k = 1 /\ api.containers.err # nil)
                      \/ (k = 2 /\ api.images.err # nil)
                      \/ (k = 3 /\ api.volumes.err # nil)
                      \/ (k = 4 /\ api.networks.err # nil)}
    IN  IF api.client.err # nil THEN 0
        ELSE IF failing = {} THEN 5
        ELSE CHOOSE k \in failing : \A j \in failing : k <= j

FirstError(api) ==
    CASE FirstFailing(api) = 0 -> api.client.err
      [] FirstFailing(api) = 1 -> api.containers.err
      [] FirstFailing(api) = 2 -> api.images.err
      [] FirstFailing(api) = 3 -> api.volumes.err
      [] FirstFailing(api) = 4 -> api.networks.err
      [] OTHER -> nil

\* C10: loadData calls ContainerList, ImageList, VolumeList, NetworkList in that
\* order and stops at the first call that fails; its message carries either the
\* four collections and no error, or that call's error and four empty
\* collections.
C10_AllOrNothing ==
    /\ ld_calls = SubSeq(ApiCalls, 1, Len(ld_calls))
    /\ ld_pc = "done" =>
          /\ Len(ld_calls) = IF FirstFailing(ld_api) = 5 THEN 4 ELSE FirstFailing(ld_api)
          /\ ld_msg.err = FirstError(ld_api)
          /\ ld_msg.err = nil =>
                /\ ld_msg.containers = ld_api.containers.val
                /\ ld_msg.images = ld_api.images.val
                /\ Len(ld_msg.volumes) <= Len(ld_api.volumes.val)
                /\ \A i \in 1..Len(ld_msg.volumes) :
                      <<ld_msg.volumes[i]>> \in {ld_api.volumes.val[j] :
                                                   j \in 1..Len(ld_api.volumes.val)}
                /\ ld_msg.networks = ld_api.networks.val
          /\ ld_msg.err # nil =>
                /\ ld_msg.containers = <<>>
                /\ ld_msg.images = <<>>
                /\ ld_msg.volumes = <<>>
                /\ ld_msg.networks = <<>>

\* C10's case: the third call failed after two had returned non-empty lists.
C10_Witness ==
    /\ ld_pc = "done"
    /\ ld_calls = <<"ContainerList", "ImageList", "VolumeList">>
    /\ Len(ld_containers) > 0
    /\ Len(ld_images) > 0
    /\ ld_msg.err = "e1"

\* The selection index of a table: <<>> when SelectedRow returns nil ("none"),
\* else <<cursor>>.
selectionIndex(t) == IF t.cursor < 0 \/ t.cursor >= Len(t.rows) THEN <<>> ELSE <<t.cursor>>

\* C11: for each of the four tables the selection index is none exactly when
\* the rows are empty, and otherwise lies in 0..Len(rows)-1.
C11_SelectionInRange ==
    \A k \in 0..3 :
        /\ selectionIndex(tableAt(k)) = <<>> <=> Len(tableAt(k).rows) = 0
        /\ Len(tableAt(k).rows) > 0 => tableAt(k).cursor \in 0..(Len(tableAt(k).rows) - 1)

\* C12: whenever a dataLoadedMsg without error takes the dashboard from Loading
\* to Ready, focusIndex is 0 and the containers table is the focused one
\* afterwards, whatever keys were handled while the fetch was outstanding.
C12_ReadyFocusesContainers ==
    [][(State = "Loading" /\ IsLoadSuccess(lastMsg') /\ pending' = pending - 1
          /\ State' = "Ready")
         => /\ focusIndex' = 0
            /\ focusedTables' = {0}]_vars

\* C13: when two fetches were outstanding together (the first of two deliveries
\* left one outstanding) and the second result is delivered, the dashboard is
\* what that second result alone determines: Ready with its collections, or
\* Error with its error.
C13_LaterResultWins ==
    [][(lastMsg.type = "dataLoaded" /\ pending = 1
          /\ lastMsg'.type = "dataLoaded" /\ pending' = 0)
         => IF lastMsg'.err = nil
            THEN /\ State' = "Ready"
                 /\ containers' = lastMsg'.containers
                 /\ images' = lastMsg'.images
                 /\ volumes' = lastMsg'.volumes
                 /\ networks' = lastMsg'.networks
            ELSE /\ State' = "Error"
                 /\ View'.error = lastMsg'.err]_vars

QuitKeys == {"q", "ctrl+c", "esc"}

\* C14: as long as the program runs a quit key can be handled, whatever the
\* state and however many fetches are outstanding; handling it ends the
\* program in that same step (no message is handled afterwards) and changes
\* none of the collections, tables, focus, error, loading flag or size.
C14_QuitAlwaysAccepted ==
    /\ [](~quit => ENABLED KeyQuit)
    /\ [][/\ ~quit
          /\ IsKey(lastMsg', QuitKeys) =>
                /\ quit'
                /\ UNCHANGED <<tableVars, dataVars, focusIndex, err, loading,
                               width, height, pending>>]_vars

\* C14's case: a quit key handled in Loading with two fetches outstanding.
C14_Witness == quit /\ IsKey(lastMsg, QuitKeys) /\ State = "Loading" /\ pending = 2

\* The cursor one row up or down from c in a table of n rows, kept within the
\* rows.
movedCursor(c, key, n) ==
    IF key = "down" THEN (IF c + 1 > n - 1 THEN n - 1 ELSE c + 1)
    ELSE (IF c - 1 < 0 THEN 0 ELSE c - 1)

\* C15: in Ready an "up" or "down" key moves the cursor of the table at
\* focusIndex one row, kept within its rows, and leaves the other three tables'
\* cursors as they were, whatever focusIndex is.
C15_NavigationMovesActive ==
    [][(State = "Ready" /\ IsKey(lastMsg', {"up", "down"})) =>
          \A k \in 0..3 :
              IF k = focusIndex /\ Len(tableAt(k).rows) > 0
              THEN tableAt(k)'.cursor =
                       movedCursor(tableAt(k).cursor, lastMsg'.key, Len(tableAt(k).rows))
              ELSE tableAt(k)'.cursor = tableAt(k).cursor]_vars

\* C16: the record a renderer displays has the derived key of the selected
\* row: the 12-character id for containers, images and networks, the name for
\* volumes.
C16_MatchByDerivedKey ==
    /\ containerIndex # 0 =>
          short12(containers[containerIndex].ID) = SelectedRow(containersTable)[1]
    /\ imageIndex # 0 =>
          short12(stripSha256(images[imageIndex].ID)) = SelectedRow(imagesTable)[2]
    /\ volumeIndex # 0 =>
          volumes[volumeIndex].Name = SelectedRow(volumesTable)[1]
    /\ networkIndex # 0 =>
          short12(stripSha256(networks[networkIndex].ID)) = SelectedRow(networksTable)[2]

collectionAt(k) ==
    CASE k = 0 -> containers
      [] k = 1 -> images
      [] k = 2 -> volumes
      [] k = 3 -> networks

recordIndexAt(k) ==
    CASE k = 0 -> containerIndex
      [] k = 1 -> imageIndex
      [] k = 2 -> volumeIndex
      [] k = 3 -> networkIndex

PlaceholderTexts ==
    <<"No container selected.", "No image selected.", "No volume selected.",
      "No network selected.">>

\* C17: the detail body of the category focusIndex names is always a value (the
\* renderer does not fail); it is that category's placeholder when the
\* collection is empty, no row is selected or the lookup finds no record, and
\* it is the record's details when the collection is non-empty and a row is
\* selected.
C17_PlaceholderOrRecord ==
    LET body == infoTitleAndBody[2]
        noRecord == \/ Len(collectionAt(focusIndex)) = 0
                    \/ SelectedRow(tableAt(focusIndex)) = <<>>
                    \/ recordIndexAt(focusIndex) = 0
    IN  /\ body.kind \in {"placeholder", "info"}
        /\ noRecord => body = Placeholder(PlaceholderTexts[focusIndex + 1])
        /\ (Len(collectionAt(focusIndex)) > 0 /\ SelectedRow(tableAt(focusIndex)) # <<>>)
              => (recordIndexAt(focusIndex) # 0 /\ body.kind = "info")

\* C17's case: the second of two containers, with an id longer than 12
\* characters, is selected and its details are displayed.
C17_Witness ==
    /\ focusIndex = 0
    /\ containersTable.cursor = 1
    /\ containers = <<cB, cA>>
    /\ infoTitleAndBody[2].kind = "info"

\* 0.3 * total rounded to the nearest integer, halves up: the r with
\* r - 1/2 <= 3 * total / 10 < r + 1/2.
roundedThreeTenths(total) ==
    CHOOSE r \in 0..(total + 1) : 10 * r - 5 <= 3 * total /\ 3 * total < 10 * r + 5

atLeastTen(x) == IF x < 10 THEN 10 ELSE x

\* C18: for a total width >= 0 computeColumnsWidth returns the left width
\* max(10, round(0.3 * total)), halves rounded up, and the right width
\* max(10, total - left width); both are at least 10.
C18_ColumnsWidth ==
    cw_result # <<>> =>
        /\ cw_result[1] = atLeastTen(roundedThreeTenths(cw_total))
        /\ cw_result[2] = atLeastTen(cw_total - cw_result[1])
        /\ cw_result[1] >= 10
        /\ cw_result[2] >= 10

\* C18's case: total width 35, where 0.3 * total = 10.5 is a half above the
\* floor of 10.
C18_Witness == cw_total = 35 /\ cw_result = <<11, 24>>

\* C19: width and height are 0 at the start, a tea.WindowSizeMsg sets them to
\* its values and no other message changes them; in Ready the frame has two
\* columns exactly when both are nonzero, each table then drawn with width
\* lw - 2 and the detail panel with width rw - 2 and height height - 6 (lw, rw
\* from computeColumnsWidth(width)); otherwise the frame is stacked and no
\* table or panel is given a size.
C19_LayoutFollowsSize ==
    /\ width = 0 /\ height = 0
    /\ [][IF lastMsg'.type = "resize"
          THEN width' = lastMsg'.Width /\ height' = lastMsg'.Height
          ELSE width' = width /\ height' = height]_vars
    /\ [](State = "Ready" =>
            IF width # 0 /\ height # 0
            THEN /\ View.layout = "columns"
                 /\ \A k \in 1..4 :
                       View.tables[k].width = <<computeColumnsWidth(width)[1] - 2>>
                 /\ View.infoSize = <<computeColumnsWidth(width)[2] - 2, height - 6>>
            ELSE /\ View.layout = "stacked"
                 /\ \A k \in 1..4 : View.tables[k].width = <<>>
                 /\ View.infoSize = <<>>)

\* C19's case: Ready after a resize to 40 x 24, drawn in two columns of 12 and
\* 28.
C19_Witness ==
    /\ State = "Ready"
    /\ lastMsg = WindowSizeMsg(40, 24)
    /\ width = 40 /\ height = 24
    /\ View.layout = "columns"
    /\ View.tables[3].width = <<10>>
    /\ View.infoSize = <<26, 18>>

\* C20: for a limit n > 3 the result of trimTo(s, n) has at most n characters,
\* is s when s has at most n characters, and otherwise is the first n - 3
\* characters of s followed by "..."; for a limit n <= 3 it is s.
C20_TrimTo ==
    tt_result # <<>> =>
        LET r == tt_result[1]
        IN  /\ tt_n > 3 =>
                  /\ Len(r) <= tt_n
                  /\ Len(tt_s) <= tt_n => r = tt_s
                  /\ Len(tt_s) > tt_n =>
                        /\ Len(r) = tt_n
                        /\ \A i \in 1..(tt_n - 3) : r[i] = tt_s[i]
                        /\ \A i \in (tt_n - 2)..tt_n : r[i] = "."
            /\ tt_n <= 3 => r = tt_s

\* C20's case: a string of six characters cut to the limit five.
C20_Witness ==
    /\ tt_n = 5
    /\ tt_s = <<"a", "b", "a", "b", "a", "b">>
    /\ tt_result = << <<"a", "b", ".", ".", ".">> >>

\* C21: an "r" key sets the loading flag, hands exactly one more loadData to
\* the runtime and changes nothing else: the collections, the tables (rows,
\* cursor, focus), focusIndex, the error and the size stay as they were.  They
\* stay so afterwards until a message that acts on them is handled: the
\* collections, rows and error change only with a dataLoadedMsg, the cursors
\* only with a dataLoadedMsg or an up/down key, focus and focusIndex only with a
\* focus key, the size only with a tea.WindowSizeMsg.
C21_RefreshFrame ==
    [][/\ IsKey(lastMsg', {"r"}) =>
             /\ loading'
             /\ pending' = pending + 1
             /\ UNCHANGED <<tableVars, dataVars, focusIndex, err, width, height>>
       /\ lastMsg'.type # "dataLoaded" =>
             /\ UNCHANGED <<dataVars, err>>
             /\ \A k \in 0..3 : tableAt(k)'.rows = tableAt(k).rows
       /\ (lastMsg'.type # "dataLoaded" /\ ~IsKey(lastMsg', {"up", "down"})) =>
             \A k \in 0..3 : tableAt(k)'.cursor = tableAt(k).cursor
       /\ ~IsKey(lastMsg', FocusKeys) =>
             /\ UNCHANGED focusIndex
             /\ \A k \in 0..3 : tableAt(k)'.focus = tableAt(k).focus
       /\ lastMsg'.type # "resize" => UNCHANGED <<width, height>>]_vars

\* C21's case: an "r" key handled in Ready with two containers stored, the
\* second one selected and the images table focused.
C21_Witness ==
    /\ IsKey(lastMsg, {"r"})
    /\ loading
    /\ err = nil
    /\ Len(containersTable.rows) = 2
    /\ containersTable.cursor = 1
    /\ focusIndex = 1
    /\ pending = 1

\* C22: the dashboard starts in Loading with one loadData handed to the
\* runtime; while in Loading no message other than a dataLoadedMsg takes it out
\* of Loading or clears the loading flag; and when every loadData delivers its
\* result, the dashboard, unless quit, eventually is Ready or shows an error.
C22_InitialLoading ==
    /\ State = "Loading" /\ loading = TRUE /\ pending = 1
    /\ [][(State = "Loading" /\ lastMsg'.type # "dataLoaded")
            => (State' = "Loading" /\ loading')]_vars
    /\ <>(quit \/ State \in {"Ready", "Error"})

\* C22's case: the first result arrives after keys and a resize were handled in
\* the initial Loading, and the dashboard is Ready.
C22_Witness ==
    /\ IsLoadSuccess(lastMsg)
    /\ pending = 0
    /\ State = "Ready"
    /\ width = 40
    /\ focusIndex = 2

\* C23: the loading flag is true exactly when at least one loadData handed to
\* the runtime has not delivered its result.
C23_LoadingIffOutstanding == loading <=> pending > 0

\* C24: in Ready, when the table at focusIndex has a selected row, the record
\* the renderer displays is the one at the cursor's position in that
\* category's stored collection, the record the row was built from.
C24_DetailOfSelectedRecord ==
    (State = "Ready" /\ SelectedRow(tableAt(focusIndex)) # <<>>)
        => recordIndexAt(focusIndex) = tableAt(focusIndex).cursor + 1

====
